---- MODULE Spec2Model ----
(***************************************************************************)
(* Model of monkeytype/config.py: the Config contract, the module-level    *)
(* computation of LIB_PATHS, default_code_filter and DefaultConfig.        *)
(*                                                                         *)
(* A Python str is a sequence of characters; Python's None, where a path   *)
(* is expected, is the value None below, which is not a string over Chars. *)
(* The module body (lines 73-108) runs once, statement by statement, when  *)
(* the module is imported; pc is the statement about to run.               *)
(***************************************************************************)
EXTENDS Naturals, Sequences, FiniteSets

\* ------------------------------------------------------------------ bounds
MaxPathLen == 2

\* ------------------------------------------------------------------ state
VARIABLES
    pc,                \* the statement of the module body about to run
    sys,               \* the attributes of the sys module (real_prefix or not)
    sysconfig_paths,   \* sysconfig.get_path(n) for the three named locations
    real_stdlib,       \* sysconfig.get_path('stdlib', vars={'installed_base': ...})
    environ,           \* os.environ, restricted to MT_DB_PATH
    lib_paths,         \* module global lib_paths
    venv_real_prefix,  \* module global venv_real_prefix
    LIB_PATHS,         \* module global LIB_PATHS
    DEFAULT_CONFIG,    \* module global DEFAULT_CONFIG
    ret,               \* the latest call into the module and its outcome
    earlier            \* some call made before it (history)

vars == <<pc, sys, sysconfig_paths, real_stdlib, environ, lib_paths,
          venv_real_prefix, LIB_PATHS, DEFAULT_CONFIG, ret, earlier>>

\* ------------------------------------------------------------ value space
Chars == {"a", "b"}

None == <<"None">>

Strings(n) == UNION {[1..k -> Chars] : k \in 0..n}

\* co_filename of a code object: a str, or None for a code object without one
Filenames == Strings(MaxPathLen) \cup {None}

\* results sysconfig.get_path(name) may give for the three named locations
InstallPaths == {None, <<>>, <<"a">>, <<"a", "b">>}

\* results sysconfig.get_path('stdlib', vars={'installed_base': prefix})
RealStdlibPaths == {None, <<>>, <<"b">>, <<"a">>}

PATH_NAMES == {"stdlib", "purelib", "platlib"}

\* the states of the `sys` module: real_prefix absent (no virtualenv ever set
\* it), present and false-like (None, ''), present and truthy
SysModules ==
    {[n \in {} |-> None]} \cup
    {[n \in {"real_prefix"} |-> v] : v \in {None, <<>>, <<"b">>}}

DB_PATH_VAR == "MT_DB_PATH"

\* values the deployment gives MT_DB_PATH
DbPathValues == {"", "mt.db"}

Environs ==
    {[k \in {} |-> ""]} \cup {[k \in {DB_PATH_VAR} |-> v] : v \in DbPathValues}

\* ------------------------------------------------------- Python primitives
\* truth value of a str-or-None: None and '' are false
Truthy(v) == v # None /\ v # <<>>

\* str.startswith(prefix)
StartsWith(s, prefix) ==
    /\ Len(prefix) <= Len(s)
    /\ SubSeq(s, 1, Len(prefix)) = prefix

\* str.startswith(tuple): true when s starts with some member of the tuple
StartsWithAny(s, prefixes) == \E p \in prefixes : StartsWith(s, p)

\* os.environ.get(key, default)
environ_get(env, key, default) ==
    IF key \in DOMAIN env THEN env[key] ELSE default


\* ------------------------------------------------------------ the classes
Methods == {"type_rewriter", "trace_store", "trace_logger", "code_filter", "sample_rate"}

\* mutant: trace_store has lost its @abstractmethod decorator
Config_abstractmethods_rewriter_only == {"type_rewriter"}

\* the accessors class Config decorates with @abstractmethod
Config_abstractmethods == {"type_rewriter", "trace_store"}

\* A class is its name and the accessors its own body defines; everything
\* else it inherits from Config.
ConfigClass == [name |-> "Config", defines |-> {}]

DefaultConfig ==
    [name |-> "DefaultConfig", defines |-> {"type_rewriter", "trace_store", "code_filter"}]

\* subclasses of Config a deployment may write: any choice of overrides
UserClasses == {[name |-> "User", defines |-> d] : d \in SUBSET Methods}

Classes == {ConfigClass, DefaultConfig} \cup UserClasses

\* ABCMeta: the abstract accessors a class has not overridden
abstractmethods(cls) == Config_abstractmethods \ cls.defines

\* ABCMeta refuses to instantiate a class that still has abstract accessors
CanInstantiate(cls) == abstractmethods(cls) = {}

\* the configuration objects that can exist
Instances == {cls \in Classes : CanInstantiate(cls)}

\* ------------------------------------------------------------- the values
\* Python's None as the result of an accessor
PyNone == <<"None">>

DEFAULT_REWRITER == <<"DEFAULT_REWRITER">>

\* the function object default_code_filter
default_code_filter_fn == <<"default_code_filter">>

\* what a deployment's own override returns: opaque to this module
UserValue(m) == <<"user", m>>

NoneStore == [kind |-> "None", path |-> ""]

UserStore == [kind |-> "UserStore", path |-> ""]

\* SQLiteStore.make_store(db_path): a store backed by the file db_path
make_store(db_path) == [kind |-> "SQLiteStore", path |-> db_path]

\* CallTraceStoreLogger(store): a logger writing to store
CallTraceStoreLogger(store) == [kind |-> "CallTraceStoreLogger", store |-> store]

UserLogger == [kind |-> "UserLogger", store |-> NoneStore]

\* An accessor's outcome: the value returned and the accessors of self that
\* ran, in call order.
Outcome(v, c) == [val |-> v, calls |-> c]

\* ---------------------------------------------------------- class Config
\* body `pass`: returns None
Config_type_rewriter(self) == Outcome(PyNone, <<"type_rewriter">>)

Config_trace_store(self) == Outcome(NoneStore, <<"trace_store">>)

Config_code_filter(self) == Outcome(PyNone, <<"code_filter">>)

Config_sample_rate(self) == Outcome(PyNone, <<"sample_rate">>)

\* --------------------------------------------------- class DefaultConfig
\* mutant: os.environ.get(DB_PATH_VAR) or "monkeytype.sqlite3"
DefaultConfig_db_path_or_fallback(env) ==
    IF environ_get(env, DB_PATH_VAR, "") = ""
    THEN "monkeytype.sqlite3"
    ELSE environ_get(env, DB_PATH_VAR, "")

\* mutant: the path resolved by the previous trace_store() call is reused
DefaultConfig_db_path_cached(env) ==
    IF ret.op = "trace_store" /\ ret.self.name = "DefaultConfig"
    THEN ret.val.path
    ELSE environ_get(env, DB_PATH_VAR, "monkeytype.sqlite3")

DefaultConfig_db_path(env) == environ_get(env, DB_PATH_VAR, "monkeytype.sqlite3")

DefaultConfig_trace_store(self, env) ==
    Outcome(make_store(DefaultConfig_db_path(env)), <<"trace_store">>)

\* mutant: a rewriter built on every call
DefaultConfig_type_rewriter_fresh(self) ==
    Outcome(<<"TypeRewriter", "new">>, <<"type_rewriter">>)

DefaultConfig_type_rewriter(self) == Outcome(DEFAULT_REWRITER, <<"type_rewriter">>)

\* mutant: code_filter not overridden
DefaultConfig_code_filter_inherited(self) == Outcome(PyNone, <<"code_filter">>)

DefaultConfig_code_filter(self) == Outcome(default_code_filter_fn, <<"code_filter">>)

\* ------------------------------------------------------ method resolution
\* self.trace_store()
call_trace_store(self, env) ==
    IF "trace_store" \in self.defines
    THEN IF self.name = "DefaultConfig"
         THEN DefaultConfig_trace_store(self, env)
         ELSE Outcome(UserStore, <<"trace_store">>)
    ELSE Config_trace_store(self)

\* mutant: the logger is opened on the default store, not on self's store
Config_trace_logger_default_store(self, env) ==
    Outcome(CallTraceStoreLogger(make_store(DefaultConfig_db_path(env))),
            <<"trace_logger", "trace_store">>)

\* Config.trace_logger: CallTraceStoreLogger(self.trace_store())
Config_trace_logger(self, env) ==
    LET store == call_trace_store(self, env)
    IN  Outcome(CallTraceStoreLogger(store.val), <<"trace_logger">> \o store.calls)

\* self.trace_logger()
call_trace_logger(self, env) ==
    IF "trace_logger" \in self.defines
    THEN Outcome(UserLogger, <<"trace_logger">>)
    ELSE Config_trace_logger(self, env)

\* self.type_rewriter()
call_type_rewriter(self) ==
    IF "type_rewriter" \in self.defines
    THEN IF self.name = "DefaultConfig"
         THEN DefaultConfig_type_rewriter(self)
         ELSE Outcome(UserValue("type_rewriter"), <<"type_rewriter">>)
    ELSE Config_type_rewriter(self)

\* self.code_filter()
call_code_filter(self) ==
    IF "code_filter" \in self.defines
    THEN IF self.name = "DefaultConfig"
         THEN DefaultConfig_code_filter(self)
         ELSE Outcome(UserValue("code_filter"), <<"code_filter">>)
    ELSE Config_code_filter(self)

\* self.sample_rate()
call_sample_rate(self) ==
    IF "sample_rate" \in self.defines
    THEN Outcome(UserValue("sample_rate"), <<"sample_rate">>)
    ELSE Config_sample_rate(self)

\* ------------------------------------------------- the module body, 73-80
\* line 73: {sysconfig.get_path(n) for n in ['stdlib', 'purelib', 'platlib']}
lib_paths_line73(paths) == {paths[n] : n \in PATH_NAMES}

\* mutant: the real stdlib location is never added
lib_paths_line77_skipped(lp, prefix, stdlib) == lp

\* lines 76-79: if venv_real_prefix: lib_paths.add(get_path('stdlib', vars=...))
lib_paths_line77(lp, prefix, stdlib) ==
    IF Truthy(prefix) THEN lp \cup {stdlib} ELSE lp

\* line 80: tuple(p for p in lib_paths if p is not None).  The tuple's order
\* is the set's iteration order and its only reader is str.startswith, which
\* asks whether some member matches: the tuple is kept as the set of members.
LIB_PATHS_line80(lp) == {p \in lp : p # None}

\* mutant: the co_filename truth test is dropped
default_code_filter_no_truth_test(filename, libs) == ~StartsWithAny(filename, libs)

\* default_code_filter(code), with code.co_filename = filename
default_code_filter(filename, libs) ==
    IF Truthy(filename) THEN ~StartsWithAny(filename, libs) ELSE FALSE

env_vars == <<sys, sysconfig_paths, real_stdlib>>

globals == <<lib_paths, venv_real_prefix, LIB_PATHS, DEFAULT_CONFIG>>

\* a name the module body has not bound yet
Unbound == [name |-> "unbound", defines |-> {}]

\* the scope of a module-level function: no self
ModuleScope == [name |-> "module", defines |-> {}]

NoCall == [op |-> "none", self |-> ModuleScope, arg |-> <<>>, val |-> PyNone, calls |-> <<>>]

Init ==
    /\ pc = "line73"
    /\ sys \in SysModules
    /\ sysconfig_paths \in [PATH_NAMES -> InstallPaths]
    /\ real_stdlib \in RealStdlibPaths
    /\ (~("real_prefix" \in DOMAIN sys /\ Truthy(sys["real_prefix"])) => real_stdlib = None)
    /\ environ \in Environs
    /\ lib_paths = {}
    /\ venv_real_prefix = None
    /\ LIB_PATHS = {}
    /\ DEFAULT_CONFIG = Unbound
    /\ ret = NoCall
    /\ earlier = NoCall

\* ------------------------------------------------ importing the module
Line73 ==
    /\ pc = "line73"
    /\ lib_paths' = lib_paths_line73(sysconfig_paths)
    /\ pc' = "line75"
    /\ UNCHANGED <<env_vars, environ, venv_real_prefix, LIB_PATHS, DEFAULT_CONFIG, ret, earlier>>

\* venv_real_prefix = getattr(sys, 'real_prefix'): without a default, getattr
\* raises AttributeError when sys has no such attribute, and the import fails
Line75 ==
    /\ pc = "line75"
    /\ IF "real_prefix" \in DOMAIN sys
       THEN /\ venv_real_prefix' = sys["real_prefix"]
            /\ pc' = "line76"
       ELSE /\ pc' = "AttributeError"
            /\ UNCHANGED venv_real_prefix
    /\ UNCHANGED <<env_vars, environ, lib_paths, LIB_PATHS, DEFAULT_CONFIG, ret, earlier>>

Line76 ==
    /\ pc = "line76"
    /\ lib_paths' = lib_paths_line77(lib_paths, venv_real_prefix, real_stdlib)
    /\ pc' = "line80"
    /\ UNCHANGED <<env_vars, environ, venv_real_prefix, LIB_PATHS, DEFAULT_CONFIG, ret, earlier>>

Line80 ==
    /\ pc = "line80"
    /\ LIB_PATHS' = LIB_PATHS_line80(lib_paths)
    /\ pc' = "line108"
    /\ UNCHANGED <<env_vars, environ, lib_paths, venv_real_prefix, DEFAULT_CONFIG, ret, earlier>>

\* DEFAULT_CONFIG = DefaultConfig()
Line108 ==
    /\ pc = "line108"
    /\ CanInstantiate(DefaultConfig)
    /\ DEFAULT_CONFIG' = DefaultConfig
    /\ pc' = "loaded"
    /\ UNCHANGED <<env_vars, environ, lib_paths, venv_real_prefix, LIB_PATHS, ret, earlier>>

\* ------------------------------------------------- calls into the module
\* record a call; the call before it may be kept as the earlier one
Call(r) ==
    /\ ret' = r
    /\ (earlier' = earlier \/ earlier' = ret)
    /\ UNCHANGED <<pc, env_vars, environ, globals>>

CallDefaultCodeFilter ==
    /\ pc = "loaded"
    /\ \E f \in Filenames :
         Call([op |-> "default_code_filter", self |-> ModuleScope, arg |-> f,
               val |-> default_code_filter(f, LIB_PATHS), calls |-> <<>>])

\* cls(): ABCMeta raises TypeError for a class with abstract accessors left
Instantiate ==
    /\ pc = "loaded"
    /\ \E cls \in Classes :
         Call([op |-> "instantiate", self |-> cls, arg |-> <<>>,
               val |-> IF CanInstantiate(cls) THEN <<"instance">> ELSE <<"TypeError">>,
               calls |-> <<>>])

Accessor(op, self, out) ==
    Call([op |-> op, self |-> self, arg |-> <<>>, val |-> out.val, calls |-> out.calls])

CallTraceStore ==
    /\ pc = "loaded"
    /\ \E self \in Instances : Accessor("trace_store", self, call_trace_store(self, environ))

CallTraceLogger ==
    /\ pc = "loaded"
    /\ \E self \in Instances : Accessor("trace_logger", self, call_trace_logger(self, environ))

CallTypeRewriter ==
    /\ pc = "loaded"
    /\ \E self \in Instances : Accessor("type_rewriter", self, call_type_rewriter(self))

CallCodeFilter ==
    /\ pc = "loaded"
    /\ \E self \in Instances : Accessor("code_filter", self, call_code_filter(self))

CallSampleRate ==
    /\ pc = "loaded"
    /\ \E self \in Instances : Accessor("sample_rate", self, call_sample_rate(self))

\* ------------------------------------------------------- the environment
\* the deployment sets MT_DB_PATH
SetEnv ==
    /\ \E v \in DbPathValues : environ' = [k \in {DB_PATH_VAR} |-> v]
    /\ UNCHANGED <<pc, env_vars, globals, ret, earlier>>

\* the deployment unsets MT_DB_PATH
UnsetEnv ==
    /\ environ' = [k \in {} |-> ""]
    /\ UNCHANGED <<pc, env_vars, globals, ret, earlier>>

\* ------------------------------------------------------- specifications
\* the path resolver and the filter, under every runtime environment
Next ==
    \/ Line73
    \/ Line75
    \/ Line76
    \/ Line80
    \/ Line108
    \/ CallDefaultCodeFilter

Spec == Init /\ [][Next]_vars

\* the whole module under a few runtime environments
InitConfig ==
    /\ Init
    /\ sysconfig_paths["stdlib"] = <<"a">>
    /\ sysconfig_paths["purelib"] = <<"a", "b">>
    /\ sysconfig_paths["platlib"] = <<"a", "b">>
    /\ real_stdlib \in {None, <<"b">>}
    /\ sys \in {[n \in {} |-> None]} \cup {[n \in {"real_prefix"} |-> v] : v \in {<<>>, <<"b">>}}

NextConfig ==
    \/ Line73
    \/ Line75
    \/ Line76
    \/ Line80
    \/ Line108
    \/ CallDefaultCodeFilter
    \/ Instantiate
    \/ CallTraceStore
    \/ CallTraceLogger
    \/ CallTypeRewriter
    \/ CallCodeFilter
    \/ CallSampleRate
    \/ SetEnv
    \/ UnsetEnv

SpecConfig == InitConfig /\ [][NextConfig]_vars

\* ============================================================== the claims
\* p is a leading part of s, character by character
BeginsWith(s, p) ==
    /\ Len(p) <= Len(s)
    /\ \A i \in 1..Len(p) : s[i] = p[i]

Imported == pc = "loaded"

\* C1: default_code_filter returns true exactly when the location's source
\* path is present and non-empty and begins with no member of the Path Prefix
\* Set: false for an absent or empty path, false for a path under a member,
\* true for a non-empty path that shares no such prefix.
C1_FilterTruthTable ==
    /\ Imported =>
         \A f \in Filenames :
           default_code_filter(f, LIB_PATHS) <=>
             /\ f # None
             /\ Len(f) > 0
             /\ ~\E p \in LIB_PATHS : BeginsWith(f, p)
    /\ ret.op = "default_code_filter" =>
         (ret.val <=>
            /\ ret.arg # None
            /\ Len(ret.arg) > 0
            /\ ~\E p \in LIB_PATHS : BeginsWith(ret.arg, p))

\* the filter has admitted a path outside a non-empty prefix set, after it
\* turned down a path under a prefix
C1_Witness ==
    /\ ret.op = "default_code_filter"
    /\ ret.val = TRUE
    /\ LIB_PATHS = {<<"a", "b">>}
    /\ ret.arg = <<"a", "a">>
    /\ earlier.op = "default_code_filter"
    /\ earlier.arg = <<"a", "b">>
    /\ earlier.val = FALSE

\* C2: once computed, LIB_PATHS holds neither an absent (None) entry nor an
\* empty-string entry, whatever the install-location queries returned.
C2_NoEmptyOrAbsentEntry ==
    pc \in {"line108", "loaded"} => (None \notin LIB_PATHS /\ <<>> \notin LIB_PATHS)

\* C3: with sys.real_prefix absent the module body completes without error
\* and LIB_PATHS is the set computed with the indicator set to a false-like
\* value (the three query results, None dropped).
C3_AbsentIndicatorLikeFalse ==
    "real_prefix" \notin DOMAIN sys =>
        /\ pc # "AttributeError"
        /\ Imported =>
             LIB_PATHS =
               LIB_PATHS_line80(lib_paths_line77(lib_paths_line73(sysconfig_paths), <<>>, real_stdlib))

\* C8: with a truthy real prefix LIB_PATHS is the non-absent results of the
\* three queries plus the stdlib path resolved under the real prefix (when
\* that is not absent), and the filter turns down every location under it;
\* with a false-like indicator LIB_PATHS is exactly the non-absent results of
\* the three queries.
C8_RealStdlibExcluded ==
    Imported =>
        LET three == {sysconfig_paths[n] : n \in PATH_NAMES} \ {None}
        IN  IF sys["real_prefix"] # None /\ Len(sys["real_prefix"]) > 0
            THEN /\ LIB_PATHS = three \cup ({real_stdlib} \ {None})
                 /\ real_stdlib # None =>
                      /\ real_stdlib \in LIB_PATHS
                      /\ \A f \in Strings(MaxPathLen) :
                           BeginsWith(f, real_stdlib) => ~default_code_filter(f, LIB_PATHS)
                      /\ (ret.op = "default_code_filter" /\ ret.arg # None
                            /\ BeginsWith(ret.arg, real_stdlib)) => ret.val = FALSE
            ELSE LIB_PATHS = three

\* inside a virtualenv whose real stdlib is none of the three locations, the
\* filter has turned down a location under the real stdlib
C8_Witness ==
    /\ Imported
    /\ sys["real_prefix"] = <<"b">>
    /\ real_stdlib = <<"b">>
    /\ real_stdlib \notin {sysconfig_paths[n] : n \in PATH_NAMES}
    /\ ret.op = "default_code_filter"
    /\ ret.arg = <<"b", "a">>
    /\ ret.val = FALSE

\* a configuration that implements only the two required accessors
BareConfig == [name |-> "User", defines |-> {"type_rewriter", "trace_store"}]

\* a step that is a call into the imported module: the environment variable
\* keeps the value the call reads
CallStep == Imported /\ environ' = environ

\* the path MT_DB_PATH stands for at this moment
CurrentDbPath ==
    IF DB_PATH_VAR \in DOMAIN environ THEN environ[DB_PATH_VAR] ELSE "monkeytype.sqlite3"

\* C4: DefaultConfig.trace_store() opens the store at 'monkeytype.sqlite3'
\* when MT_DB_PATH is unset and at exactly the variable's value when it is
\* set, the empty string included.
C4_StorePath ==
    [][ (CallStep /\ ret'.op = "trace_store" /\ ret'.self = DefaultConfig) =>
          /\ ret'.val.kind = "SQLiteStore"
          /\ DB_PATH_VAR \notin DOMAIN environ => ret'.val.path = "monkeytype.sqlite3"
          /\ DB_PATH_VAR \in DOMAIN environ => ret'.val.path = environ[DB_PATH_VAR]
      ]_vars

\* with MT_DB_PATH set to the empty string, the store was opened at ''; an
\* earlier call, made with the variable unset, opened the fallback path
C4_Witness ==
    /\ ret.op = "trace_store"
    /\ ret.self = DefaultConfig
    /\ DB_PATH_VAR \in DOMAIN environ
    /\ environ[DB_PATH_VAR] = ""
    /\ ret.val.path = ""
    /\ earlier.op = "trace_store"
    /\ earlier.self = DefaultConfig
    /\ earlier.val.path = "monkeytype.sqlite3"

\* C5: a configuration implementing only trace_store and type_rewriter can
\* be constructed, its trace_logger() is a CallTraceStoreLogger on the store
\* its own trace_store() returns, and its code_filter() and sample_rate()
\* are None.
C5_BareConfigDefaults ==
    /\ (ret.op = "instantiate" /\ ret.self = BareConfig) => ret.val = <<"instance">>
    /\ (ret.op = "trace_logger" /\ ret.self = BareConfig) =>
         /\ ret.val.kind = "CallTraceStoreLogger"
         /\ ret.val.store.kind = "UserStore"
         /\ (earlier.op = "trace_store" /\ earlier.self = BareConfig) =>
              ret.val.store = earlier.val
    /\ (ret.op = "code_filter" /\ ret.self = BareConfig) => ret.val = <<"None">>
    /\ (ret.op = "sample_rate" /\ ret.self = BareConfig) => ret.val = <<"None">>

\* the bare configuration's logger was obtained after its store
C5_Witness ==
    /\ ret.op = "trace_logger"
    /\ ret.self = BareConfig
    /\ ret.val.kind = "CallTraceStoreLogger"
    /\ earlier.op = "trace_store"
    /\ earlier.self = BareConfig

\* C6: constructing a configuration class fails with the error exactly when
\* the class lacks trace_store or type_rewriter, whatever optional accessors
\* it has; the failed construction leaves no object behind, so every accessor
\* call is on a configuration that has both required accessors.
C6_RequiredAccessors ==
    /\ ret.op = "instantiate" =>
         (ret.val = <<"TypeError">> <=>
            ~({"trace_store", "type_rewriter"} \subseteq ret.self.defines))
    /\ ret.op \in Methods => {"trace_store", "type_rewriter"} \subseteq ret.self.defines
    /\ Imported => {"trace_store", "type_rewriter"} \subseteq DEFAULT_CONFIG.defines

\* a class with every optional accessor and one required accessor missing
\* was refused, after a class with the two required accessors only was built
C6_Witness ==
    /\ ret.op = "instantiate"
    /\ ret.self = [name |-> "User",
                   defines |-> {"type_rewriter", "trace_logger", "code_filter", "sample_rate"}]
    /\ ret.val = <<"TypeError">>
    /\ earlier.op = "instantiate"
    /\ earlier.self = BareConfig
    /\ earlier.val = <<"instance">>

\* C7: DefaultConfig.code_filter() is the function default_code_filter and
\* never None; DefaultConfig.sample_rate() is None; DefaultConfig's
\* trace_logger() is a CallTraceStoreLogger on the store its trace_store()
\* opens.
C7_DefaultConfigAccessors ==
    [][ (CallStep /\ ret'.self = DefaultConfig) =>
          /\ ret'.op = "code_filter" =>
               (ret'.val = <<"default_code_filter">> /\ ret'.val # <<"None">>)
          /\ ret'.op = "sample_rate" => ret'.val = <<"None">>
          /\ ret'.op = "trace_logger" =>
               /\ ret'.val.kind = "CallTraceStoreLogger"
               /\ ret'.val.store = [kind |-> "SQLiteStore", path |-> CurrentDbPath]
      ]_vars

\* DefaultConfig handed out the default filter, after handing out a logger
C7_Witness ==
    /\ ret.op = "code_filter"
    /\ ret.self = DefaultConfig
    /\ ret.val = <<"default_code_filter">>
    /\ earlier.op = "trace_logger"
    /\ earlier.self = DefaultConfig
    /\ earlier.val.store.kind = "SQLiteStore"

\* C9: every DefaultConfig.trace_store() call and every DefaultConfig
\* trace_logger() call uses the value MT_DB_PATH has at that call, whatever
\* earlier calls used, and the logger call runs trace_store() exactly once.
C9_NoCaching ==
    [][ (CallStep /\ ret'.self = DefaultConfig) =>
          /\ ret'.op = "trace_store" =>
               /\ ret'.val.path = CurrentDbPath
               /\ ret'.calls = <<"trace_store">>
          /\ ret'.op = "trace_logger" =>
               /\ ret'.val.store.path = CurrentDbPath
               /\ Cardinality({i \in DOMAIN ret'.calls : ret'.calls[i] = "trace_store"}) = 1
      ]_vars

\* a logger obtained before MT_DB_PATH changed and a store obtained after it
\* refer to different paths
C9_Witness ==
    /\ earlier.op = "trace_logger"
    /\ earlier.self = DefaultConfig
    /\ ret.op = "trace_store"
    /\ ret.self = DefaultConfig
    /\ earlier.val.store.path = "mt.db"
    /\ ret.val.path = "monkeytype.sqlite3"

\* two calls of the same deterministic operation on the same receiver with
\* the same argument
SameCall ==
    /\ earlier.op = ret.op
    /\ ret.op \in {"default_code_filter", "code_filter", "sample_rate", "type_rewriter"}
    /\ earlier.self = ret.self
    /\ ret.op = "default_code_filter" => earlier.arg = ret.arg

\* C10: once the module is imported no step changes lib_paths, LIB_PATHS or
\* DEFAULT_CONFIG; default_code_filter gives the same verdict for the same
\* path, code_filter() and sample_rate() the same value on every call, and
\* DefaultConfig.type_rewriter() the one DEFAULT_REWRITER, whatever calls and
\* changes of MT_DB_PATH come in between.
C10_Frame ==
    /\ [][Imported => (Imported' /\ globals' = globals)]_vars
    /\ [](SameCall => earlier.val = ret.val)
    /\ []((ret.op = "type_rewriter" /\ ret.self = DefaultConfig) =>
            ret.val = <<"DEFAULT_REWRITER">>)

\* DefaultConfig handed out its rewriter twice, the same instance both times
C10_Witness ==
    /\ ret.op = "type_rewriter"
    /\ ret.self = DefaultConfig
    /\ earlier.op = "type_rewriter"
    /\ earlier.self = DefaultConfig
    /\ earlier.val = ret.val
    /\ DB_PATH_VAR \in DOMAIN environ
====
